---- MODULE Spec2Model ----
(***************************************************************************)
(* Model of Multi.py: the PF1..PF6 generator.                              *)
(*                                                                         *)
(* A Python str is a sequence of one-character strings, so that strip,     *)
(* isdigit, zfill and the regular expressions are computed character by    *)
(* character.  A cell of the uploaded DataFrame is a record:               *)
(*   [t |-> "str", v |-> <<chars>>]   a Python str                         *)
(*   [t |-> "int", v |-> n]           a numeric cell (digits-only column)  *)
(*   [t |-> "nan"]                    a blank cell (float NaN)             *)
(***************************************************************************)
EXTENDS Integers, Sequences, FiniteSets, TLC

\* ------------------------------------------------------------------ bounds
MaxRows == 2        \* rows of an uploaded dataset
MaxVals == 2        \* length of a series handed to sanitize_numeric alone
MaxStrLen == 2      \* length of a raw value handed to sanitize_numeric alone

\* ------------------------------------------------------- program constants
ACC_WIDTH == 7
MAN_WIDTH == 4
CP_LEN == 5

TEMPLATE_COLS == {"Numéro de compte", "Raison sociale", "Adresse", "ManagingBranch"}

\* ---------------------------------------------------------------- strings
DigitChars == {"0", "1", "2", "3", "4", "5", "6", "7", "8", "9"}
SpaceChars == {" ", "\t", "\n"}

StrCell(s) == [t |-> "str", v |-> s]
IntCell(n) == [t |-> "int", v |-> n]
NaN == [t |-> "nan"]

\* \d
IsDigitChar(c) == c \in DigitChars
\* \s
IsSpaceChar(c) == c \in SpaceChars
\* \w : everything of the alphabet that is neither whitespace nor punctuation
IsWordChar(c) == c \notin SpaceChars /\ c \notin {"-", ",", ".", "'", "+"}
\* .  (no DOTALL flag)
IsDotChar(c) == c # "\n"

AllDigits(s) == \A i \in 1..Len(s) : IsDigitChar(s[i])

RECURSIVE Zeros(_)
Zeros(n) == IF n <= 0 THEN <<>> ELSE <<"0">> \o Zeros(n - 1)

DigitOf(d) == CASE d = 0 -> "0" [] d = 1 -> "1" [] d = 2 -> "2" [] d = 3 -> "3"
                [] d = 4 -> "4" [] d = 5 -> "5" [] d = 6 -> "6" [] d = 7 -> "7"
                [] d = 8 -> "8" [] d = 9 -> "9"

RECURSIVE NatStr(_)
NatStr(n) == IF n < 10 THEN <<DigitOf(n)>> ELSE NatStr(n \div 10) \o <<DigitOf(n % 10)>>

\* str(x) of a cell, as Series.astype(str) does it element by element
astype_str(cell) ==
    CASE cell.t = "str" -> cell.v
      [] cell.t = "int" -> IF cell.v < 0 THEN <<"-">> \o NatStr(0 - cell.v) ELSE NatStr(cell.v)
      [] cell.t = "nan" -> <<"n", "a", "n">>

RECURSIVE lstrip(_)
lstrip(s) == IF s # <<>> /\ IsSpaceChar(Head(s)) THEN lstrip(Tail(s)) ELSE s

RECURSIVE rstrip(_)
rstrip(s) == IF s # <<>> /\ IsSpaceChar(s[Len(s)]) THEN rstrip(SubSeq(s, 1, Len(s) - 1)) ELSE s

\* str.strip()
strip(s) == rstrip(lstrip(s))

\* str.isdigit(): at least one character and all of them digits
isdigit(s) == s # <<>> /\ AllDigits(s)

\* str.zfill(width); a leading sign stays in front of the zeros
zfill(s, width) ==
    IF Len(s) >= width THEN s
    ELSE IF s # <<>> /\ Head(s) \in {"+", "-"}
         THEN <<Head(s)>> \o Zeros(width - Len(s)) \o Tail(s)
         ELSE Zeros(width - Len(s)) \o s

\* re.fullmatch(r"\d{width}", s) is not None
fullmatch_digits(s, width) == Len(s) = width /\ AllDigits(s)

\* variant: the isdigit() test dropped from the lambda
pad_value_no_isdigit(x, width) == IF Len(x) <= width THEN zfill(x, width) ELSE x

\* the lambda of sanitize_numeric
pad_value(x, width) == IF isdigit(x) /\ Len(x) <= width THEN zfill(x, width) ELSE x

\* sanitize_numeric(series, width) -> (s_padded, invalid)
sanitize_numeric(series, width) ==
    LET s == [i \in 1..Len(series) |-> strip(astype_str(series[i]))]
        s_padded == [i \in 1..Len(s) |-> pad_value(s[i], width)]
        invalid == [i \in 1..Len(s) |-> ~fullmatch_digits(s_padded[i], width)]
    IN  [padded |-> s_padded, invalid |-> invalid]

\* ---------------------------------------------------------- split_address
\* first index >= i of s that holds no whitespace (Len(s)+1 if none)
RECURSIVE SkipSpace(_, _)
SkipSpace(s, i) == IF i <= Len(s) /\ IsSpaceChar(s[i]) THEN SkipSpace(s, i + 1) ELSE i

\* first index >= i of s that holds no digit (Len(s)+1 if none)
RECURSIVE SkipDigits(_, _)
SkipDigits(s, i) == IF i <= Len(s) /\ IsDigitChar(s[i]) THEN SkipDigits(s, i + 1) ELSE i

MaxOf(S) == CHOOSE x \in S : \A y \in S : y <= x
MinOf(S) == CHOOSE x \in S : \A y \in S : x <= y

NoMatch == [matched |-> FALSE]

\* re.match(r"^\s*(?P<num>\d+\w?)\s+(?P<voie>.+?)\s+(?P<cp>\d{5})\s+(?P<ville>.+)$", s, re.I)
\* The backtracking matcher returns the first match in the order of its
\* choices: greedy \s+ longest first, lazy .+? shortest first.
\*   i0    start of num (the greedy \s* cannot give back: \d needs a digit)
\*   p1    index after num: the digit run, plus one word character if any
\*   a     start of voie, within the whitespace after num   (largest first)
\*   b     index after voie                                  (smallest first)
\*   c     start of cp = end of the whitespace after voie
\*   d     start of ville, within the whitespace after cp    (largest first)
\*   e     index after ville: the end of s, or the newline that ends s
address_match(s) ==
    LET n  == Len(s)
        i0 == SkipSpace(s, 1)
        dE == SkipDigits(s, i0)
        p1 == IF dE <= n /\ IsWordChar(s[dE]) THEN dE + 1 ELSE dE
        e  == IF n > 0 /\ s[n] = "\n" THEN n ELSE n + 1
        VilleOk(d) == d < e /\ \A k \in d..(e - 1) : IsDotChar(s[k])
        DSet(c) == IF c + CP_LEN <= n /\ IsSpaceChar(s[c + CP_LEN])
                   THEN {d \in (c + CP_LEN + 1)..SkipSpace(s, c + CP_LEN) : VilleOk(d)}
                   ELSE {}
        CpOk(c) == c + CP_LEN - 1 <= n /\ \A k \in c..(c + CP_LEN - 1) : IsDigitChar(s[k])
        VoieOk(a, b) == /\ \A k \in a..(b - 1) : IsDotChar(s[k])
                        /\ b <= n /\ IsSpaceChar(s[b])
                        /\ CpOk(SkipSpace(s, b))
                        /\ DSet(SkipSpace(s, b)) # {}
        ASet == IF dE > i0 /\ p1 <= n /\ IsSpaceChar(s[p1])
                THEN {a \in (p1 + 1)..SkipSpace(s, p1) :
                        \E b \in (a + 1)..n : VoieOk(a, b)}
                ELSE {}
    IN  IF ASet = {} THEN NoMatch
        ELSE LET a == MaxOf(ASet)
                 b == MinOf({x \in (a + 1)..n : VoieOk(a, x)})
                 c == SkipSpace(s, b)
                 d == MaxOf(DSet(c))
             IN  [matched |-> TRUE,
                  num   |-> SubSeq(s, i0, p1 - 1),
                  voie  |-> SubSeq(s, a, b - 1),
                  cp    |-> SubSeq(s, c, c + CP_LEN - 1),
                  ville |-> SubSeq(s, d, e - 1)]

\* parse_address(addr) of libpostal is not part of this program: its result is
\* an input, a list of (value, label) pairs, or PostalRaise when it rejects
\* an argument that is not a str.
Tok(val, lab) == [val |-> val, lab |-> lab]
PostalRaise == [ok |-> FALSE, toks |-> <<>>]
PostalResults ==
    { [ok |-> TRUE, toks |-> <<>>],
      [ok |-> TRUE, toks |->
         << Tok(<<"1", "0">>, "house_number"), Tok(<<"r">>, "road"), Tok(<<"p">>, "path"),
            Tok(<<"7", "5", "0", "0", "2">>, "postcode"), Tok(<<"x">>, "unit"),
            Tok(<<"v">>, "city"), Tok(<<"b", "e">>, "country") >>] }

\* the loop of split_address over the (val, lab) pairs: the last writer wins
RECURSIVE postal_fold(_, _)
postal_fold(d, toks) ==
    IF toks = <<>> THEN d
    ELSE LET val == Head(toks).val
             lab == Head(toks).lab
             d2 == IF lab = "house_number" THEN [d EXCEPT !.num = val]
                   ELSE IF lab \in {"road", "footway", "path"} THEN [d EXCEPT !.voie = val]
                   ELSE IF lab = "postcode" THEN [d EXCEPT !.cp = val]
                   ELSE IF lab \in {"city", "town", "village", "suburb"} THEN [d EXCEPT !.ville = val]
                   ELSE IF lab = "country" THEN [d EXCEPT !.pays = val]
                   ELSE d
         IN  postal_fold(d2, Tail(toks))

\* bool(x) of a cell
truthy(cell) ==
    CASE cell.t = "str" -> cell.v # <<>>
      [] cell.t = "int" -> cell.v # 0
      [] cell.t = "nan" -> TRUE

\* addr or ""
addr_or_empty(addr) == IF truthy(addr) THEN addr ELSE StrCell(<<>>)

\* what parse_address can do with the argument it is given
PostalOutcomes(addr) ==
    IF addr_or_empty(addr).t = "str" THEN PostalResults ELSE PostalResults \cup {PostalRaise}

FR == <<"F", "R">>

empty_address == [num |-> <<>>, voie |-> <<>>, cp |-> <<>>, ville |-> <<>>, pays |-> FR]

\* the dict split_address builds from the match object m (None: not matched)
match_dict(m) ==
    IF m.matched
    THEN [num |-> m.num, voie |-> m.voie, cp |-> m.cp, ville |-> m.ville, pays |-> FR]
    ELSE empty_address

\* split_address once "addr or ''" is evaluated to arg
split_arg(arg, use_postal, parsed) ==
    IF use_postal
    THEN IF ~parsed.ok
         THEN [raised |-> TRUE, exc |-> "TypeError", d |-> empty_address]
         ELSE [raised |-> FALSE, exc |-> "", d |-> postal_fold(empty_address, parsed.toks)]
    ELSE IF arg.t # "str"
         THEN \* re.match: expected string or bytes-like object
              [raised |-> TRUE, exc |-> "TypeError", d |-> empty_address]
         ELSE [raised |-> FALSE, exc |-> "", d |-> match_dict(address_match(arg.v))]

\* split_address(addr) -> [raised, exc, d]; parsed is parse_address's outcome
split_address(addr, use_postal, parsed) == split_arg(addr_or_empty(addr), use_postal, parsed)

\* ------------------------------------------------------------------ state
VARIABLES
    USE_POSTAL,         \* libpostal imported at start-up
    integration_type, up_file, entreprise, punchout_user, domain, identity,
    vm_choice, pc_enabled, pc_name,                      \* the form's widgets
    pc,                 \* position of the script in the action block
    df_src,             \* the DataFrame read from the upload
    acc_series, invalid_acc, man_series, invalid_man,    \* sanity-check results
    tables,             \* what build_tables returned
    ui,                 \* what the page shows, in order
    uploaded,           \* the DataFrame as read_any returned it, kept for reference
    sanitized,          \* sanitize_numeric has been applied in this run
    build_called,       \* build_tables has been entered in this run
    n_expanded,         \* rows the loop of build_tables went through
    san_in, san_width, san_out      \* sanitize_numeric applied on its own

form == <<integration_type, up_file, entreprise, punchout_user, domain, identity,
          vm_choice, pc_enabled, pc_name>>
run == <<pc, df_src, acc_series, invalid_acc, man_series, invalid_man, tables, ui,
         uploaded, sanitized, build_called, n_expanded>>
san == <<san_in, san_width, san_out>>
vars == <<USE_POSTAL, form, run, san>>

\* ----------------------------------------------------------------- inputs
ExampleAdresse ==
    <<"1", "0", " ", "R", "u", "e", " ", "d", "e", " ", "l", "a", " ", "P", "a", "i", "x",
      " ", "7", "5", "0", "0", "2", " ", "P", "a", "r", "i", "s">>

\* cells the file reader can deliver, per column
AccCells == { IntCell(123),
              StrCell(<<" ", "1", "2", "3", "4", "5", "6", "7", " ">>),
              StrCell(<<"a", "b", "c">>) }
ManCells == { IntCell(12), StrCell(<<"1", "2", "3", "4", "5">>) }
NameCells == { StrCell(<<"E", "X">>) }
AdrCells == { StrCell(ExampleAdresse), StrCell(<<"a", "b", "c">>), StrCell(<<>>), NaN }

CellsOf(c) ==
    CASE c = "Numéro de compte" -> AccCells
      [] c = "ManagingBranch" -> ManCells
      [] c = "Raison sociale" -> NameCells
      [] c = "Adresse" -> AdrCells

\* rows with all four columns, and their restriction to the columns present
FullRows == {r \in [TEMPLATE_COLS -> AccCells \cup ManCells \cup NameCells \cup AdrCells] :
                \A c \in TEMPLATE_COLS : r[c] \in CellsOf(c)}
RowsOver(cols) == {[c \in cols |-> r[c]] : r \in FullRows}

\* a DataFrame as read_any returns it: the columns present, the rows in file
\* order under the default RangeIndex
DataFrame(cols, rows) == [columns |-> cols, rows |-> rows]

NoDF == [columns |-> {}, rows |-> <<>>, none |-> TRUE]

\* ------------------------------------------------------------ build_tables
\* sorted(missing): code-point order of the four column names
COL_ORDER == <<"Adresse", "ManagingBranch", "Numéro de compte", "Raison sociale">>

RECURSIVE KeepIn(_, _)
KeepIn(seq, S) ==
    IF seq = <<>> THEN <<>>
    ELSE IF Head(seq) \in S THEN <<Head(seq)>> \o KeepIn(Tail(seq), S) ELSE KeepIn(Tail(seq), S)

sorted_cols(S) == KeepIn(COL_ORDER, S)

\* ", ".join(names)
RECURSIVE join_comma(_)
join_comma(names) ==
    IF names = <<>> THEN ""
    ELSE IF Len(names) = 1 THEN names[1]
    ELSE names[1] \o ", " \o join_comma(Tail(names))

sealed == "false"
pc_value == IF pc_enabled = "True" /\ pc_name # "" THEN "PC_" \o pc_name ELSE ""
config_col == IF integration_type = "OCI" THEN "OCIAssignedConfiguration"
              ELSE "CXmIAssignedConfiguration"

PF1_COLUMNS == <<"uid", "name", "locName", config_col, "pcCompoundProfile", "ViewMasterCatalog">>
PF2_COLUMNS == <<"B2B Unit", "ADRESSE / Numéro de rue", "ADRESSE / rue", "ADRESSEE Code postal",
                 "ADRESSE / Ville", "ADRESSE / Pays/Région",
                 "INFORMATIONS D'ADRESSE SUPPLÉMENTAIRES / Téléphone 1">>
PF3_COLUMNS == <<"B2BUnitID", "itemtype", "managingBranches", "punchoutUserID", "sealed">>
PF4_COLUMNS == <<"aliasName", "branch", "punchoutUserID", "sealed">>
PF5_COLUMNS == <<"B2BUnitID", "punchoutUserID">>
PF6_COLUMNS == <<"number", "domain", "identity">>

\* the records one source row r contributes
\* variant: locName filled from the company name
pf1_row_name_twice(r) ==
    << r["Numéro de compte"], r["Raison sociale"], r["Raison sociale"],
       "frx-variant-" \o entreprise \o "-configuration-set", pc_value, vm_choice >>

pf1_row(r) == << r["Numéro de compte"], r["Raison sociale"], r["Adresse"],
                 "frx-variant-" \o entreprise \o "-configuration-set", pc_value, vm_choice >>
pf2_row(r, addr) == << r["Numéro de compte"], StrCell(addr.num), StrCell(addr.voie),
                       StrCell(addr.cp), StrCell(addr.ville), StrCell(addr.pays), "" >>
pf3_row(r) == << r["Numéro de compte"], "PunchoutAccountAndBranchAssociation",
                 r["ManagingBranch"], punchout_user, sealed >>
\* variant: aliasName filled from the account number
pf4_row_alias_account(r) ==
    << r["Numéro de compte"], r["ManagingBranch"], punchout_user, sealed >>

pf4_row(r) == << r["ManagingBranch"], r["ManagingBranch"], punchout_user, sealed >>
pf5_row(r) == << r["Numéro de compte"], punchout_user >>
pf6_row(r) == << r["Numéro de compte"], domain, identity >>

\* variant: a record already in the table is not added again
loc_append_unique(pf, row) ==
    IF \E k \in 1..Len(pf.rows) : pf.rows[k] = row THEN pf
    ELSE [pf EXCEPT !.rows = Append(@, row)]

\* pfN.loc[len(pfN)] = row
loc_append(pf, row) == [pf EXCEPT !.rows = Append(@, row)]

\* one pass of "for _, r in df.iterrows()"
expand_row(t, r, addr) ==
    LET t5 == [t EXCEPT !.pf1 = loc_append(@, pf1_row(r)),
                        !.pf2 = loc_append(@, pf2_row(r, addr)),
                        !.pf3 = loc_append(@, pf3_row(r)),
                        !.pf4 = loc_append(@, pf4_row(r)),
                        !.pf5 = loc_append(@, pf5_row(r))]
    IN  IF integration_type = "cXML"
        THEN [t5 EXCEPT !.pf6 = loc_append(@, pf6_row(r))]
        ELSE t5

\* the rows the loop visits, in order
iterrows(df) == df.rows

\* the loop from row i on; parsed[i] is parse_address's outcome for row i;
\* a is what split_address returned for row i
RECURSIVE build_loop(_, _, _, _)
loop_body(rows, parsed, i, t, a) ==
    IF a.raised
    THEN [raised |-> TRUE, exc |-> a.exc, t |-> t, expanded |-> i - 1]
    ELSE build_loop(rows, parsed, i + 1, expand_row(t, rows[i], a.d))

build_loop(rows, parsed, i, t) ==
    IF i > Len(rows)
    THEN [raised |-> FALSE, exc |-> "", t |-> t, expanded |-> i - 1]
    ELSE loop_body(rows, parsed, i, t, split_address(rows[i]["Adresse"], USE_POSTAL, parsed[i]))

empty_frames ==
    [pf1 |-> [columns |-> PF1_COLUMNS, rows |-> <<>>],
     pf2 |-> [columns |-> PF2_COLUMNS, rows |-> <<>>],
     pf3 |-> [columns |-> PF3_COLUMNS, rows |-> <<>>],
     pf4 |-> [columns |-> PF4_COLUMNS, rows |-> <<>>],
     pf5 |-> [columns |-> PF5_COLUMNS, rows |-> <<>>],
     pf6 |-> [columns |-> PF6_COLUMNS, rows |-> <<>>]]

\* the tuple build_tables returns
returned(t) == IF integration_type = "cXML"
               THEN <<t.pf1, t.pf2, t.pf3, t.pf4, t.pf5, t.pf6>>
               ELSE <<t.pf1, t.pf2, t.pf3, t.pf4, t.pf5>>

\* what build_tables hands back once its loop has ended with res
loop_result(res) ==
    IF res.raised
    THEN [raised |-> TRUE, exc |-> res.exc, text |-> "expected string or bytes-like object",
          named |-> <<>>, tables |-> <<>>, expanded |-> res.expanded]
    ELSE [raised |-> FALSE, exc |-> "", text |-> "", named |-> <<>>,
          tables |-> returned(res.t), expanded |-> res.expanded]

\* raise ValueError(f"Colonnes manquantes : {', '.join(sorted(missing))}")
missing_columns(missing) ==
    [raised |-> TRUE, exc |-> "ValueError",
     text |-> "Colonnes manquantes : " \o join_comma(sorted_cols(missing)),
     named |-> sorted_cols(missing), tables |-> <<>>, expanded |-> 0]

\* build_tables(df) -> [raised, exc, text, named, tables, expanded]
build_tables(df, parsed) ==
    IF TEMPLATE_COLS \ df.columns # {}
    THEN missing_columns(TEMPLATE_COLS \ df.columns)
    ELSE loop_result(build_loop(iterrows(df), parsed, 1, empty_frames))

\* ------------------------------------------------------------ the script
NoTables == <<>>
NoSeries == <<>>

\* mask.any(), mask.sum()
any(mask) == \E i \in 1..Len(mask) : mask[i]
RECURSIVE sum(_)
sum(mask) == IF mask = <<>> THEN 0 ELSE (IF Head(mask) THEN 1 ELSE 0) + sum(Tail(mask))

\* positions of a boolean mask that are set, in order
RECURSIVE where(_, _)
where(mask, i) ==
    IF i > Len(mask) THEN <<>>
    ELSE IF mask[i] THEN <<i>> \o where(mask, i + 1) ELSE where(mask, i + 1)

\* pandas label of the row at position i under the default RangeIndex
index_label(i) == i - 1

\* pd.DataFrame({"Ligne": series.index[invalid] + 1, col: series[invalid]})
invalid_report(col, series, invalid) ==
    LET pos == where(invalid, 1)
    IN  [kind |-> "dataframe", col |-> col,
         Ligne |-> [k \in 1..Len(pos) |-> index_label(pos[k]) + 1],
         values |-> [k \in 1..Len(pos) |-> series[pos[k]]]]

\* zip(tags, tables)
zip(a, b) == [i \in 1..(IF Len(a) <= Len(b) THEN Len(a) ELSE Len(b)) |-> <<a[i], b[i]>>]

\* variant: PF6 never offered
tags_without_pf6 == <<"PF1", "PF2", "PF3", "PF4", "PF5">>

tags == <<"PF1", "PF2", "PF3", "PF4", "PF5">> \o
        (IF integration_type = "cXML" THEN <<"PF6">> ELSE <<>>)

\* the download buttons of the success branch
download_buttons(tabs) ==
    LET z == zip(tags, tabs)
    IN  [i \in 1..Len(z) |->
            [kind |-> "download_button", tag |-> z[i][1], data |-> z[i][2],
             file_name |-> z[i][1] \o "_" \o entreprise]]

\* a column of the DataFrame as a series
column(df, c) == [i \in 1..Len(df.rows) |-> df.rows[i][c]]

\* df[c] = series   (series of str, same index)
set_column(df, c, series) ==
    [df EXCEPT !.rows = [i \in 1..Len(df.rows) |->
                            [df.rows[i] EXCEPT ![c] = StrCell(series[i])]]]

\* ---------------------------------------------------------- action block
\* The script's own state while the action block runs: s.pc is the statement
\* it stands at; "stopped" after st.stop(), "done" at the end of the script.
started ==
    [pc |-> "read", df_src |-> NoDF,
     acc_series |-> NoSeries, invalid_acc |-> NoSeries,
     man_series |-> NoSeries, invalid_man |-> NoSeries,
     tables |-> NoTables, ui |-> <<>>, uploaded |-> NoDF, sanitized |-> FALSE,
     build_called |-> FALSE, n_expanded |-> 0]

\* something is shown, then st.stop()
st_stop(s, shown) == [s EXCEPT !.ui = @ \o shown, !.pc = "stopped"]

\* except Exception as err: st.error(...); st.stop()   lines 238-240
on_exception(s, exc, text, named) ==
    st_stop(s, <<[kind |-> "error", exc |-> exc, text |-> text, named |-> named, count |-> 0]>>)

form_complete ==
    /\ up_file # "None" /\ entreprise # "" /\ punchout_user # "" /\ identity # ""
    /\ (pc_enabled = "False" \/ pc_name # "")

\* df_src = read_any(up_file)   line 203
read_any(s, ds) == [s EXCEPT !.df_src = ds, !.uploaded = ds, !.pc = "check"]

\* lines 206-207
check_columns(s) ==
    IF s.pc # "check" THEN s
    ELSE IF "Numéro de compte" \notin s.df_src.columns \/ "ManagingBranch" \notin s.df_src.columns
         THEN on_exception(s, "ValueError",
                           "Colonnes 'Numéro de compte' ou 'ManagingBranch' manquantes.",
                           <<"Numéro de compte", "ManagingBranch">>)
         ELSE [s EXCEPT !.pc = "sanitize"]

\* the four results of lines 209-210 stored
checked(s, a, m) ==
    [s EXCEPT !.acc_series = a.padded, !.invalid_acc = a.invalid,
              !.man_series = m.padded, !.invalid_man = m.invalid,
              !.sanitized = TRUE, !.pc = "report_acc"]

\* lines 209-210
sanity_checks(s) ==
    IF s.pc # "sanitize" THEN s
    ELSE checked(s, sanitize_numeric(column(s.df_src, "Numéro de compte"), ACC_WIDTH),
                    sanitize_numeric(column(s.df_src, "ManagingBranch"), MAN_WIDTH))

\* lines 212-221
report_acc(s) ==
    IF s.pc # "report_acc" THEN s
    ELSE IF any(s.invalid_acc)
         THEN st_stop(s, <<[kind |-> "error", exc |-> "",
                            text |-> "Numéro(s) de compte invalide(s)",
                            named |-> <<>>, count |-> sum(s.invalid_acc)],
                           invalid_report("Numéro de compte", s.acc_series, s.invalid_acc)>>)
         ELSE [s EXCEPT !.pc = "report_man"]

\* variant: the branch-code check does not stop the run
report_man_no_stop(s) == IF s.pc # "report_man" THEN s ELSE [s EXCEPT !.pc = "replace"]

\* lines 222-231
report_man(s) ==
    IF s.pc # "report_man" THEN s
    ELSE IF any(s.invalid_man)
         THEN st_stop(s, <<[kind |-> "error", exc |-> "",
                            text |-> "ManagingBranch invalide(s)",
                            named |-> <<>>, count |-> sum(s.invalid_man)],
                           invalid_report("ManagingBranch", s.man_series, s.invalid_man)>>)
         ELSE [s EXCEPT !.pc = "replace"]

\* variant: the cleaned series are not written back
replace_columns_skipped(s) == IF s.pc # "replace" THEN s ELSE [s EXCEPT !.pc = "build"]

\* lines 234-235
replace_columns(s) ==
    IF s.pc # "replace" THEN s
    ELSE [s EXCEPT !.df_src = set_column(set_column(@, "Numéro de compte", s.acc_series),
                                         "ManagingBranch", s.man_series),
                   !.pc = "build"]

\* build_tables has returned or raised res   lines 237-240
built(s, res) ==
    IF res.raised
    THEN on_exception([s EXCEPT !.build_called = TRUE, !.n_expanded = res.expanded],
                      res.exc, res.text, res.named)
    ELSE [s EXCEPT !.build_called = TRUE, !.n_expanded = res.expanded,
                   !.tables = res.tables, !.pc = "success"]

\* tables = build_tables(df_src)   line 237
call_build(s, parsed) ==
    IF s.pc # "build" THEN s ELSE built(s, build_tables(s.df_src, parsed))

\* lines 242-258
show_downloads(s) ==
    IF s.pc # "success" THEN s
    ELSE [s EXCEPT !.ui = @ \o <<[kind |-> "success", text |-> "Fichiers prêts !"]>>
                          \o download_buttons(s.tables)
                          \o <<[kind |-> "preview", data |-> s.tables[1]]>>
                          \o (IF ~USE_POSTAL
                              THEN <<[kind |-> "info", text |-> "libpostal non détecté"]>>
                              ELSE <<>>),
                   !.pc = "done"]

\* lines 203-235: the try block up to the call of build_tables
before_build(ds) ==
    replace_columns(report_man(report_acc(sanity_checks(check_columns(read_any(started, ds))))))

\* lines 237-258
from_build(s, parsed) == show_downloads(call_build(s, parsed))

\* the outcomes parse_address can have for the rows the loop of build_tables visits
ParsedFor(s) ==
    IF USE_POSTAL /\ s.pc = "build" /\ TEMPLATE_COLS \subseteq s.df_src.columns
    THEN {p \in [1..Len(s.df_src.rows) -> PostalResults \cup {PostalRaise}] :
             \A i \in 1..Len(s.df_src.rows) :
                p[i] \in PostalOutcomes(s.df_src.rows[i]["Adresse"])}
    ELSE {[i \in 1..Len(s.df_src.rows) |-> PostalRaise]}

finish(s) ==
    /\ pc' = s.pc
    /\ df_src' = s.df_src
    /\ acc_series' = s.acc_series /\ invalid_acc' = s.invalid_acc
    /\ man_series' = s.man_series /\ invalid_man' = s.invalid_man
    /\ tables' = s.tables
    /\ ui' = s.ui
    /\ uploaded' = s.uploaded
    /\ sanitized' = s.sanitized
    /\ build_called' = s.build_called
    /\ n_expanded' = s.n_expanded

\* the button pressed with a field missing: lines 196-200
GenerateIncomplete ==
    /\ pc = "idle"
    /\ ~form_complete
    /\ finish(st_stop([started EXCEPT !.pc = "form"],
                      <<[kind |-> "warning", text |-> "Remplissez tous les champs requis."]>>))
    /\ UNCHANGED <<USE_POSTAL, form, san>>

\* the button pressed, read_any raises (no encoding decodes the CSV): lines 103, 238-240
GenerateUnreadable ==
    /\ pc = "idle"
    /\ form_complete
    /\ finish(on_exception(started, "ValueError", "Encodage CSV non reconnu.", <<>>))
    /\ UNCHANGED <<USE_POSTAL, form, san>>

\* the button pressed, the upload is read: the whole action block, lines 196-258
Generate ==
    /\ pc = "idle"
    /\ form_complete
    /\ \E cols \in SUBSET TEMPLATE_COLS, n \in 0..MaxRows :
          \E rows \in [1..n -> RowsOver(cols)] :
             \E s \in {before_build(DataFrame(cols, rows))} :
                \E parsed \in ParsedFor(s) : finish(from_build(s, parsed))
    /\ UNCHANGED <<USE_POSTAL, form, san>>

\* the values the widgets offer: lines 37, 74-91
IntegrationTypes == {"cXML", "OCI"}
Uploads == {"None", "dfrecu"}
Entreprises == {"", "ACME"}
PunchoutUsers == {"", "user1"}
Identities == {"", "id1"}
TrueFalse == {"True", "False"}

RunInit ==
    /\ pc = "idle"
    /\ df_src = NoDF
    /\ acc_series = NoSeries /\ invalid_acc = NoSeries
    /\ man_series = NoSeries /\ invalid_man = NoSeries
    /\ tables = NoTables
    /\ ui = <<>>
    /\ uploaded = NoDF
    /\ sanitized = FALSE
    /\ build_called = FALSE
    /\ n_expanded = 0

NoOut == [done |-> FALSE, padded |-> <<>>, invalid |-> <<>>]
SanIdle == san_in = <<>> /\ san_width = 0 /\ san_out = NoOut

\* the page as first rendered: every widget at its default
Init ==
    /\ USE_POSTAL \in BOOLEAN
    /\ integration_type = "cXML"
    /\ up_file = "None"
    /\ entreprise = ""
    /\ punchout_user = ""
    /\ domain = "NetworkID"
    /\ identity = ""
    /\ vm_choice = "True"
    /\ pc_enabled = "True"
    /\ pc_name = ""
    /\ RunInit
    /\ SanIdle

\* A widget is changed while the page waits for the button.  domain and
\* vm_choice stay at their defaults: they are copied into PF6 and PF1 and read
\* nowhere else.
SetIntegrationType ==
    /\ pc = "idle"
    /\ integration_type' \in IntegrationTypes
    /\ UNCHANGED <<USE_POSTAL, up_file, entreprise, punchout_user, domain, identity,
                   vm_choice, pc_enabled, pc_name, run, san>>

Upload ==
    /\ pc = "idle"
    /\ up_file' \in Uploads
    /\ UNCHANGED <<USE_POSTAL, integration_type, entreprise, punchout_user, domain, identity,
                   vm_choice, pc_enabled, pc_name, run, san>>

\* entreprise = st.text_input(...).strip(); the other two are taken as typed
SetTextInputs ==
    /\ pc = "idle"
    /\ entreprise' \in Entreprises
    /\ punchout_user' \in PunchoutUsers
    /\ identity' \in Identities
    /\ UNCHANGED <<USE_POSTAL, integration_type, up_file, domain, vm_choice, pc_enabled,
                   pc_name, run, san>>

\* pc_name is asked for only when pc_enabled == "True": lines 88-91
SetPersonalCatalogue ==
    /\ pc = "idle"
    /\ pc_enabled' \in TrueFalse
    /\ pc_name' \in (IF pc_enabled' = "True" THEN {"", "CAT"} ELSE {""})
    /\ UNCHANGED <<USE_POSTAL, integration_type, up_file, entreprise, punchout_user, domain,
                   identity, vm_choice, run, san>>

\* any interaction after the run reruns the script from the top: the page is
\* rendered again without the results, the widgets keep their values
Rerun ==
    /\ pc \in {"done", "stopped"}
    /\ pc' = "idle"
    /\ df_src' = NoDF
    /\ acc_series' = NoSeries /\ invalid_acc' = NoSeries
    /\ man_series' = NoSeries /\ invalid_man' = NoSeries
    /\ tables' = NoTables
    /\ ui' = <<>>
    /\ uploaded' = NoDF
    /\ sanitized' = FALSE
    /\ build_called' = FALSE
    /\ n_expanded' = 0
    /\ UNCHANGED <<USE_POSTAL, form, san>>

Next ==
    \/ SetIntegrationType
    \/ Upload
    \/ SetTextInputs
    \/ SetPersonalCatalogue
    \/ GenerateIncomplete
    \/ GenerateUnreadable
    \/ Generate
    \/ Rerun

Spec == Init /\ [][Next]_vars

\* --------------------------------------------- sanitize_numeric on its own
SanAlphabet == {"1", "a", " "}
SanStrings == UNION { [1..n -> SanAlphabet] : n \in 0..MaxStrLen }
SanCells == { StrCell(x) : x \in SanStrings } \cup { IntCell(7), NaN }
SanWidths == {1, 2}

\* sanitize(["123", "1234567", "abc"], width=7)
ExampleValues == << StrCell(<<"1", "2", "3">>),
                    StrCell(<<"1", "2", "3", "4", "5", "6", "7">>),
                    StrCell(<<"a", "b", "c">>) >>

SanInit ==
    /\ USE_POSTAL = FALSE
    /\ integration_type = "cXML" /\ up_file = "None" /\ entreprise = ""
    /\ punchout_user = "" /\ domain = "NetworkID" /\ identity = ""
    /\ vm_choice = "True" /\ pc_enabled = "True" /\ pc_name = ""
    /\ RunInit
    /\ \/ /\ \E n \in 0..MaxVals : san_in \in [1..n -> SanCells]
          /\ san_width \in SanWidths
       \/ /\ san_in = ExampleValues
          /\ san_width = ACC_WIDTH
    /\ san_out = NoOut

\* s_padded, invalid = sanitize_numeric(series, width)
SanitizeSeries ==
    /\ ~san_out.done
    /\ \E r \in {sanitize_numeric(san_in, san_width)} :
          san_out' = [done |-> TRUE, padded |-> r.padded, invalid |-> r.invalid]
    /\ UNCHANGED <<USE_POSTAL, form, run, san_in, san_width>>

SanNext == SanitizeSeries

SpecSanitize == SanInit /\ [][SanNext]_vars

\* ================================================================ properties
\* Reference definitions the properties are stated with: written in closed
\* form, independently of strip / zfill / fullmatch above.

ExactlyDigits(x, w) == Len(x) = w /\ \A i \in 1..w : x[i] \in DigitChars

\* x without its leading and trailing whitespace
TrimmedOf(x) ==
    LET idx == {i \in 1..Len(x) : x[i] \notin SpaceChars}
    IN  IF idx = {} THEN <<>> ELSE SubSeq(x, MinOf(idx), MaxOf(idx))

\* a non-empty run of digits no longer than w
Paddable(x, w) == x # <<>> /\ Len(x) <= w /\ \A i \in 1..Len(x) : x[i] \in DigitChars

\* x left-padded with zeros to w characters when paddable, x otherwise
PaddedOf(x, w) ==
    IF Paddable(x, w)
    THEN [i \in 1..w |-> IF i <= w - Len(x) THEN "0" ELSE x[i - (w - Len(x))]]
    ELSE x

\* the value of a cell after trimming and padding, and whether it is valid
CleanOf(cell, w) == PaddedOf(TrimmedOf(astype_str(cell)), w)
ValidCell(cell, w) == ExactlyDigits(CleanOf(cell, w), w)

ACC == "Numéro de compte"
MAN == "ManagingBranch"

\* a run has read an upload that holds both numeric columns
Checked == uploaded # NoDF /\ {ACC, MAN} \subseteq uploaded.columns
Missing == TEMPLATE_COLS \ uploaded.columns
NRows == Len(uploaded.rows)
BadAcc == {i \in 1..NRows : ~ValidCell(uploaded.rows[i][ACC], ACC_WIDTH)}
BadMan == {i \in 1..NRows : ~ValidCell(uploaded.rows[i][MAN], MAN_WIDTH)}

Buttons == SelectSeq(ui, LAMBDA e : e.kind = "download_button")

\* a 7-digit account number / 4-digit branch code held as a str
IsAccount(cell) == cell.t = "str" /\ ExactlyDigits(cell.v, ACC_WIDTH)
IsBranch(cell) == cell.t = "str" /\ ExactlyDigits(cell.v, MAN_WIDTH)

\* C1: a dataset with an invalid account number or an invalid branch code ends
\* the run stopped on an error, build_tables never called, no table, no
\* download offered.
C1_NoPartialOutput ==
    (Checked /\ (BadAcc # {} \/ BadMan # {})) =>
        /\ pc = "stopped"
        /\ \E k \in 1..Len(ui) : ui[k].kind = "error"
        /\ ~build_called
        /\ tables = NoTables
        /\ Buttons = <<>>

\* a two-row upload whose accounts are all valid and whose branch codes are
\* valid in one row and invalid in the other, stopped
C1_Witness ==
    /\ Checked /\ pc = "stopped" /\ NRows >= 2
    /\ BadAcc = {}
    /\ BadMan # {} /\ BadMan # 1..NRows
    /\ ~build_called

\* the report shown for column col lists every invalid row, 1-based, with its value
ReportShown(col, w, bad) ==
    \E k \in 1..Len(ui) :
        /\ ui[k].kind = "dataframe"
        /\ ui[k].col = col
        /\ {ui[k].Ligne[j] : j \in 1..Len(ui[k].Ligne)} = bad
        /\ \A j \in 1..Len(ui[k].Ligne) :
              ui[k].values[j] = CleanOf(uploaded.rows[ui[k].Ligne[j]][col], w)

\* C2: with an invalid account number and an invalid branch code in the same
\* dataset, both reports are shown, each listing every offending row.
C2_BothReportsShown ==
    (Checked /\ BadAcc # {} /\ BadMan # {}) =>
        /\ ReportShown(ACC, ACC_WIDTH, BadAcc)
        /\ ReportShown(MAN, MAN_WIDTH, BadMan)

\* C3: whatever required columns are missing, the run fails on a message that
\* names each of them, before any value is sanitized or any row expanded.
C3_MissingColumnsNamedFirst ==
    (uploaded # NoDF /\ Missing # {}) =>
        /\ pc = "stopped"
        /\ ~sanitized
        /\ n_expanded = 0
        /\ \E k \in 1..Len(ui) :
              /\ ui[k].kind = "error"
              /\ \A c \in Missing : \E j \in 1..Len(ui[k].named) : ui[k].named[j] = c

\* the account number / branch code of row i as handed to build_tables
AccountOf(i) == StrCell(CleanOf(uploaded.rows[i][ACC], ACC_WIDTH))
BranchOf(i) == StrCell(CleanOf(uploaded.rows[i][MAN], MAN_WIDTH))

\* C4: every returned table has one record per source row, and record i is
\* the one of source row i.
C4_RowCountAndOrder ==
    pc = "done" =>
        /\ \A k \in 1..Len(tables) : Len(tables[k].rows) = NRows
        /\ \A i \in 1..NRows :
              /\ tables[1].rows[i][1] = AccountOf(i)
              /\ tables[1].rows[i][2] = uploaded.rows[i]["Raison sociale"]
              /\ tables[2].rows[i][1] = AccountOf(i)
              /\ tables[3].rows[i][1] = AccountOf(i)
              /\ tables[3].rows[i][3] = BranchOf(i)
              /\ tables[4].rows[i][2] = BranchOf(i)
              /\ tables[5].rows[i][1] = AccountOf(i)
              /\ Len(tables) = 6 => tables[6].rows[i][1] = AccountOf(i)

\* tables built from an upload of two accounts attached to the same branch
C4_Witness ==
    /\ pc = "done" /\ NRows >= 2
    /\ \E i, j \in 1..NRows : i < j /\ AccountOf(j) # AccountOf(i)
                                    /\ BranchOf(i) = BranchOf(j)
    /\ Len(tables[3].rows) = NRows

\* C5 as stated: uid is the account number, name and locName are both the
\* company name.
C5_NameAndLocName ==
    pc = "done" =>
        \A i \in 1..Len(tables[1].rows) :
            /\ tables[1].rows[i][1] = df_src.rows[i][ACC]
            /\ tables[1].rows[i][2] = df_src.rows[i]["Raison sociale"]
            /\ tables[1].rows[i][3] = df_src.rows[i]["Raison sociale"]

\* C5 amended: uid is the account number, name is the company name, locName
\* is the row's Adresse cell as read.
C5_LocNameIsAdresse ==
    pc = "done" =>
        \A i \in 1..Len(tables[1].rows) :
            /\ tables[1].rows[i][1] = df_src.rows[i][ACC]
            /\ tables[1].rows[i][2] = df_src.rows[i]["Raison sociale"]
            /\ tables[1].rows[i][3] = df_src.rows[i]["Adresse"]

\* a PF1 record whose locName is the address and differs from its name
C5_Witness ==
    /\ pc = "done" /\ NRows >= 1
    /\ tables[1].rows[1][3] = StrCell(ExampleAdresse)
    /\ tables[1].rows[1][3] # tables[1].rows[1][2]

\* C6: at every position the account-keyed tables carry the row's account
\* number and the branch-keyed columns the row's branch code.
C6_CrossTableCorrelation ==
    pc = "done" =>
        \A i \in 1..Len(df_src.rows) :
            /\ \A x \in {tables[1].rows[i][1], tables[2].rows[i][1], tables[3].rows[i][1],
                         tables[5].rows[i][1]} : x = df_src.rows[i][ACC]
            /\ integration_type = "cXML" => tables[6].rows[i][1] = df_src.rows[i][ACC]
            /\ \A x \in {tables[3].rows[i][3], tables[4].rows[i][1], tables[4].rows[i][2]} :
                  x = df_src.rows[i][MAN]

\* six tables over two rows with different account numbers
C6_Witness ==
    /\ pc = "done" /\ integration_type = "cXML" /\ Len(df_src.rows) >= 2
    /\ df_src.rows[1][ACC] # df_src.rows[2][ACC]
    /\ tables[6].rows[2][1] = df_src.rows[2][ACC]
    /\ tables[4].rows[2][1] = df_src.rows[2][MAN]

\* C7: OCI gives five tables and the column OCIAssignedConfiguration, cXML
\* six tables (PF6 with one record per row) and CXmIAssignedConfiguration;
\* the downloads offered are the returned tables, tag by tag.
C7_IntegrationTypeShape ==
    pc = "done" =>
        /\ integration_type = "OCI" =>
              /\ Len(tables) = 5
              /\ tables[1].columns[4] = "OCIAssignedConfiguration"
        /\ integration_type = "cXML" =>
              /\ Len(tables) = 6
              /\ tables[1].columns[4] = "CXmIAssignedConfiguration"
              /\ tables[6].columns = <<"number", "domain", "identity">>
              /\ Len(tables[6].rows) = NRows
        /\ Len(Buttons) = Len(tables)
        /\ \A k \in 1..Len(Buttons) :
              /\ Buttons[k].tag = <<"PF1", "PF2", "PF3", "PF4", "PF5", "PF6">>[k]
              /\ Buttons[k].data = tables[k]

\* a cXML run over at least one row: six downloads, PF6 the last
C7_Witness ==
    /\ pc = "done" /\ integration_type = "cXML" /\ NRows >= 1
    /\ Len(Buttons) = 6 /\ Buttons[6].tag = "PF6"
    /\ Len(Buttons[6].data.rows) = NRows

\* C8: sanitize_numeric pads the trimmed all-digit values no longer than
\* width, leaves the others as trimmed, flags exactly the values that are not
\* width digits, at every position; the example of the specification.
C8_SanitizeNumeric ==
    san_out.done =>
        /\ Len(san_out.padded) = Len(san_in)
        /\ Len(san_out.invalid) = Len(san_in)
        /\ \A i \in 1..Len(san_in) :
              /\ san_out.padded[i] = PaddedOf(TrimmedOf(astype_str(san_in[i])), san_width)
              /\ san_out.invalid[i] = ~ExactlyDigits(san_out.padded[i], san_width)
        /\ (san_in = ExampleValues /\ san_width = 7) =>
              /\ san_out.padded = << <<"0", "0", "0", "0", "1", "2", "3">>,
                                     <<"1", "2", "3", "4", "5", "6", "7">>,
                                     <<"a", "b", "c">> >>
              /\ san_out.invalid = <<FALSE, FALSE, TRUE>>

\* the example has been sanitized
C8_Witness ==
    /\ san_out.done /\ san_in = ExampleValues
    /\ san_out.padded[1] = <<"0", "0", "0", "0", "1", "2", "3">>
    /\ san_out.invalid[3]

\* the Adresse cell does not match the layout (or holds no str at all)
NotMatching(cell) == cell.t # "str" \/ ~address_match(cell.v).matched

\* C9: under the regex fallback no Adresse cell fails the run; a cell that
\* does not match gives a PF2 record with empty fields and pays = "FR".
C9_AddressNeverFails ==
    (~USE_POSTAL /\ Checked /\ Missing = {} /\ BadAcc = {} /\ BadMan = {}) =>
        /\ pc = "done"
        /\ Len(tables[2].rows) = NRows
        /\ \A i \in 1..NRows :
              NotMatching(uploaded.rows[i]["Adresse"]) =>
                 tables[2].rows[i] = << AccountOf(i), StrCell(<<>>), StrCell(<<>>),
                                        StrCell(<<>>), StrCell(<<>>), StrCell(FR), "" >>

\* C10: after a successful run every account number in the tables is 7
\* digits and every branch code 4 digits.
C10_TablesHoldSanitizedValues ==
    pc = "done" =>
        \A i \in 1..NRows :
            /\ IsAccount(tables[1].rows[i][1])
            /\ IsAccount(tables[2].rows[i][1])
            /\ IsAccount(tables[3].rows[i][1])
            /\ IsAccount(tables[5].rows[i][1])
            /\ integration_type = "cXML" => IsAccount(tables[6].rows[i][1])
            /\ IsBranch(tables[3].rows[i][3])
            /\ IsBranch(tables[4].rows[i][1])
            /\ IsBranch(tables[4].rows[i][2])

\* raw cells 123 and " 1234567 " and 12 came out as 0000123, 1234567 and 0012
C10_Witness ==
    /\ pc = "done" /\ NRows >= 2
    /\ uploaded.rows[1][ACC] = IntCell(123)
    /\ uploaded.rows[2][ACC] = StrCell(<<" ", "1", "2", "3", "4", "5", "6", "7", " ">>)
    /\ uploaded.rows[1][MAN] = IntCell(12)
    /\ tables[1].rows[1][1] = StrCell(<<"0", "0", "0", "0", "1", "2", "3">>)
    /\ tables[1].rows[2][1] = StrCell(<<"1", "2", "3", "4", "5", "6", "7">>)
    /\ tables[4].rows[1][1] = StrCell(<<"0", "0", "1", "2">>)

====
